---- MODULE Spec2Model ----
(***************************************************************************)
(* Model of enex2notion's command line driver (enex2notion/cli.py): the    *)
(* resume ledger (DoneFile), the retry loop around upload_note and the     *)
(* per-notebook / per-note loop of EnexUploader.upload, run one or more    *)
(* times over the same input and the same ledger file (Spec). SpecOnce is   *)
(* one run with every --mode-webclips on a ledger left by earlier runs     *)
(* (SpecOnceFair: of a process that keeps running), SpecDir one run on     *)
(* files and directories, SpecLedger the DoneFile objects of one path on   *)
(* their own. SpecContainers, SpecIndents and SpecSize exercise parts that *)
(* cli.py imports: container find-or-create, the nesting of indented       *)
(* blocks and the formatting of file sizes.                                *)
(***************************************************************************)
EXTENDS Integers, Sequences, FiniteSets, TLC

\* ---------------------------------------------------------------- bounds
\* distinct note fingerprints 1..NumHashes
NumHashes == 2
\* export files on the command line
MaxFiles == 2
\* notes in the export files of a run, all files together
MaxNotes == 2
\* consecutive runs sharing the ledger
MaxRuns == 2
\* largest value tried for a --retry option
MaxRetryOpt == 1
\* distinct container titles 1..NumTitles
NumTitles == 2
\* find-or-create calls in one row
MaxFinds == 3
\* blocks of one note
MaxBlocks == 5
\* largest indent level of a block
MaxIndent == 2
\* base-1024 digits of a file size: sizes below 1024^MaxSizeLen bytes
MaxSizeLen == 6

\* ------------------------------------------------------ program constants
\* range(5) in _upload_note
MaxAttempts == 5
\* attempt == 4 in _upload_note
LastAttempt == 4

\* the "\n" character of the ledger file
NL == 0
\* an option that is absent from argv
Unset == -1
None == "None"

Hashes == 1 .. NumHashes
Chars == Hashes \cup {NL}
Whitespace == {NL}

VARIABLES
    args,            \* argv: the options of the command line
    input_paths,     \* args.enex_input: the files and directories named in argv
    enex_input,      \* the export files that upload() is given, as far as read
    parse_result,    \* what parse_note gives for the note of a fingerprint
    fs_done,         \* the done file on disk: [exists, data]
    run,             \* number of the current run of the program
    pc,              \* position of the run inside cli()
    exc,             \* exception that ended the run, if any
    import_root,     \* EnexUploader.import_root
    notebook_root,   \* notebook_root of the current upload()
    done_hashes,     \* EnexUploader.done_hashes (DoneFile.done_hashes or set())
    file_idx,        \* position of the loop over args.enex_input
    note_idx,        \* position of the loop over iter_notes(enex_file)
    attempt,         \* loop variable of _upload_note
    fails,           \* upload_note calls of the current note that raised
    calls,           \* upload_note calls made for the current note
    run_calls,       \* upload_note calls per fingerprint in this run
    run_ok,          \* upload_note calls that returned, per fingerprint, this run
    start_fs,        \* the done file as it was when this run started
    raised_at,       \* position of the run when the exception was raised
    root_calls,      \* get_notebook_database/get_notebook_page calls, this run
    root_fails,      \* those of them that raised
    committed,       \* successful upload_note returns per fingerprint, all runs
    lost,            \* fingerprints uploaded but interrupted before the ledger write
    prev_unfinished, \* fingerprints tried without success in the previous run
    uploads,         \* paths given to EnexUploader.upload in this run, in order
    log,             \* warnings and errors logged in this run
    wk_checks,       \* ensure_wkhtmltopdf calls of this run
    api_calls,       \* get_notion_client / get_import_root calls of this run
    run_parsed,      \* parse_note calls per fingerprint in this run
    remote_partial,  \* unfinished pages left in the containers, per fingerprint
    added,           \* fingerprints given to DoneFile.add since start_fs
    resolved,        \* notebook names given to get_notebook_database/_page, this run
    remote,          \* the containers of the remote workspace, in creation order
    returned,        \* the find-or-create calls made and what each returned
    indents,         \* the indent levels of the parsed blocks still to be placed
    tree,            \* the block tree built from the indent levels so far
    size,            \* a file size in bytes, base-1024 digits, lowest first
    size_str         \* what _sizeof_fmt gives for the size

\* what the driver does besides walking the input and the ledger
observed == <<uploads, log, wk_checks, api_calls, run_parsed, remote_partial,
              added, resolved>>

\* the state of the parts of the program that cli.py imports, checked on
\* their own
parts == <<remote, returned, indents, tree, size, size_str>>

vars == <<args, input_paths, enex_input, parse_result, fs_done, run, pc, exc, import_root,
          notebook_root, done_hashes, file_idx, note_idx, attempt, fails, calls,
          run_calls, run_ok, start_fs, raised_at, root_calls, root_fails,
          committed, lost, prev_unfinished, observed, parts>>

inputs == <<args, input_paths, enex_input, parse_result>>

\* ------------------------------------------------------------- DoneFile
Range(s) == {s[i] : i \in 1 .. Len(s)}

\* index of the end of the first line of a non-empty text
LineEnd(data) ==
    IF \E i \in 1 .. Len(data) : data[i] = NL
    THEN CHOOSE i \in 1 .. Len(data) :
            data[i] = NL /\ \A j \in 1 .. (i - 1) : data[j] # NL
    ELSE Len(data)

\* "for line in f": the lines of the file, each with its line terminator
RECURSIVE ReadLines(_)
ReadLines(data) ==
    IF data = <<>> THEN <<>>
    ELSE <<SubSeq(data, 1, LineEnd(data))>>
            \o ReadLines(SubSeq(data, LineEnd(data) + 1, Len(data)))

RECURSIVE LStrip(_)
LStrip(s) == IF s # <<>> /\ Head(s) \in Whitespace THEN LStrip(Tail(s)) ELSE s

RECURSIVE RStrip(_)
RStrip(s) ==
    IF s # <<>> /\ s[Len(s)] \in Whitespace
    THEN RStrip(SubSeq(s, 1, Len(s) - 1)) ELSE s

\* Strip as str.lstrip(): the end of the line stays
Strip_Left(s) == LStrip(s)

\* str.strip()
Strip(s) == RStrip(LStrip(s))

\* DoneFileLoad without line.strip(): every line keeps its "\n"
DoneFileLoad_NoStrip(fs) ==
    IF fs.exists THEN Range(ReadLines(fs.data)) ELSE {}

\* DoneFile.__init__: the set of stripped lines, empty when the file is missing
DoneFileLoad(fs) ==
    IF fs.exists THEN {Strip(l) : l \in Range(ReadLines(fs.data))} ELSE {}

\* HashLine without the "\n"
HashLine_NoNewline(h) == <<h>>

\* the "{note_hash}\n" that DoneFile.add writes
HashLine(h) == <<h, NL>>

\* DoneFileAppend with the file opened in mode "w" instead of "a"
DoneFileAppend_Truncates(fs, h) == [exists |-> TRUE, data |-> HashLine(h)]

\* DoneFile.add, file part: open(path, "a") and write one line
DoneFileAppend(fs, h) == [exists |-> TRUE, data |-> fs.data \o HashLine(h)]

\* Contains with the hash compared as it is written to the file
Contains_AsWritten(hashes, h) == HashLine(h) \in hashes

\* DoneFile.__contains__ / "note_hash in set()"
Contains(hashes, h) == <<h>> \in hashes

\* --------------------------------------------------------------- inputs
\* an export file of which nothing has been read yet: notes holds the notes
\* that iter_notes has yielded so far, eof tells that it has reached the end
UnreadFile == [notes |-> <<>>, eof |-> FALSE]

\* args.enex_input: one to MaxFiles export files
EnexInputs == UNION {[1 .. k -> {UnreadFile}] : k \in 1 .. MaxFiles}

\* the paths of the export files, numbered in the order of pathlib's "<"
Paths == 1 .. MaxFiles

\* what lies below a directory: a file "*.enex" in the directory itself, a
\* file "*.enex" in one of its subdirectories, a file with another suffix
EntryKinds == {"enex", "nested_enex", "other"}

\* an export file named in argv, with the stem of its name
FileNamed(p, n) == [is_dir |-> FALSE, path |-> p, entries |-> {}, stem |-> n]

\* an export file named in argv whose name no other file has
FileArg(p) == FileNamed(p, p)

\* a directory named in argv, with the entries of its tree
DirArg(es) == [is_dir |-> TRUE, path |-> 0, entries |-> es, stem |-> 0]

\* the trees of a directory: no two entries have the same path
DirTrees ==
    {es \in SUBSET [path : Paths, kind : EntryKinds] :
        \A e, f \in es : e.path = f.path => e = f}

\* the paths that an argument of argv names or holds
PathsIn(arg) == IF arg.is_dir THEN {e.path : e \in arg.entries} ELSE {arg.path}

\* argv of files only, file i at path i
PlainInput(k) == [i \in 1 .. k |-> FileArg(i)]

\* argv of files only, file i at path i, where a file can have the name of
\* a file in another directory ("a/x.enex" and "b/x.enex"); names are
\* numbered in the order in which argv first has them
NamedInputs(k) ==
    {a \in [1 .. k -> {FileNamed(p, n) : p \in 1 .. k, n \in 1 .. k}] :
        \A i \in 1 .. k :
            /\ a[i].path = i
            /\ a[i].stem \in {a[j].stem : j \in 1 .. i - 1}
                             \cup {1 + Cardinality({a[j].stem : j \in 1 .. i - 1})}}

\* args.enex_input: one to MaxFiles files or directories, no path twice
InputPaths ==
    {a \in UNION {[1 .. k -> {FileArg(p) : p \in Paths}
                              \cup {DirArg(es) : es \in DirTrees}] :
                  k \in 1 .. MaxFiles} :
        \A i, j \in DOMAIN a : i # j => PathsIn(a[i]) \cap PathsIn(a[j]) = {}}

\* the sequences in which the file system can list a directory tree
Listings(es) == {l \in [1 .. Cardinality(es) -> es] : Range(l) = es}

\* Path.glob("**/*.enex"): the paths with suffix ".enex" at any depth, in the
\* order of the listing
Glob(listing) ==
    [i \in DOMAIN SelectSeq(listing, LAMBDA e : e.kind # "other") |->
        SelectSeq(listing, LAMBDA e : e.kind # "other")[i].path]

RECURSIVE Insert(_, _)
Insert(p, s) ==
    IF s = <<>> THEN <<p>>
    ELSE IF p <= Head(s) THEN <<p>> \o s
    ELSE <<Head(s)>> \o Insert(p, Tail(s))

RECURSIVE Sorted(_)
\* Sorted that leaves the paths in the order of the listing
Sorted_AsListed(s) == s

\* sorted(): the same paths in increasing order
Sorted(s) == IF s = <<>> THEN <<>> ELSE Insert(Head(s), Sorted(Tail(s)))

\* the files that cli() gives to upload() for one argument of argv: the file
\* itself, or sorted(enex_input.glob("**/*.enex")) for a directory
FilesOf(arg) ==
    IF arg.is_dir THEN {Sorted(Glob(l)) : l \in Listings(arg.entries)}
    ELSE {<<arg.path>>}

\* the loop of cli() over args.enex_input: the files given to upload(), in order
RECURSIVE UploadQueues(_)
UploadQueues(argv) ==
    IF argv = <<>> THEN {<<>>}
    ELSE {f \o q : f \in FilesOf(Head(argv)), q \in UploadQueues(Tail(argv))}

\* the number of export files that argv names or holds
RECURSIVE CountFiles(_)
CountFiles(argv) ==
    IF argv = <<>> THEN 0
    ELSE CountFiles(Tail(argv)) +
         (IF Head(argv).is_dir
          THEN Cardinality({e \in Head(argv).entries : e.kind # "other"})
          ELSE 1)

RECURSIVE CountNotes(_)
CountNotes(files) ==
    IF files = <<>> THEN 0 ELSE Len(Head(files).notes) + CountNotes(Tail(files))

\* the options of argv in every combination
AllArgs == [token : {"none", "good", "bad"},
            done_file : BOOLEAN,
            retry : {Unset} \cup (0 .. MaxRetryOpt),
            skip_failed : BOOLEAN,
            keep_failed : BOOLEAN,
            mode_webclips : {"TXT", "PDF"}]

\* argv with the default --mode-webclips
Args == {a \in AllArgs : a.mode_webclips = "TXT"}

\* what parse_note gives for a note, "unknown" until the note is first parsed
ParseOutcomes == {"blocks", "empty", "raise"}

\* a ledger left by no run yet: missing, or created empty
InitLedgers == {[exists |-> FALSE, data |-> <<>>], [exists |-> TRUE, data |-> <<>>]}

\* the text that holds the fingerprints of s, one per line
RECURSIVE LinesOf(_)
LinesOf(s) == IF s = <<>> THEN <<>> ELSE <<Head(s), NL>> \o LinesOf(Tail(s))

\* the ledgers that earlier runs can have left: missing, or one line for each
\* of some fingerprints, none twice
WrittenLedgers ==
    {[exists |-> FALSE, data |-> <<>>]} \cup
    {[exists |-> TRUE, data |-> LinesOf(s)] :
        s \in {t \in UNION {[1 .. k -> Hashes] : k \in 0 .. NumHashes} :
                  \A i, j \in DOMAIN t : i # j => t[i] # t[j]}}

Zero == [h \in Hashes |-> 0]

CurFile == enex_input[file_idx].notes
CurNote == CurFile[note_idx]

Running == {"parse_args", "ensure_wkhtmltopdf", "get_root", "init_uploader", "next_input",
            "get_notebook_root", "iter_notes", "parse_note", "upload_note",
            "done_add", "done_write"}
Ended == {"done", "raised"}

\* the messages of cli.py at level warning or error
DryRunMsg == "No token provided, dry run mode. Nothing will be uploaded to Notion!"
BadTokenMsg == "Invalid token provided!"
RetryMsg == "Failed to upload note '{note.title}' to Notion! Retrying..."
ParseErrorMsg == "Unhandled exception while parsing note '{note.title}'!"

\* a record of the log: the message and, for a message that names a note,
\* the note whose title stands in it
Untitled == 0
Logged(msg) == [msg |-> msg, title |-> Untitled]
LoggedFor(msg, h) == [msg |-> msg, title |-> h]

ApiOps == {"get_notion_client", "get_import_root"}
NoCalls == [op \in ApiOps |-> 0]

\* nothing has been done yet
Fresh ==
    /\ parse_result = [h \in Hashes |-> "unknown"]
    /\ (~args.done_file => ~fs_done.exists)
    /\ run = 1
    /\ exc = "none"
    /\ raised_at = "none"
    /\ import_root = None
    /\ notebook_root = None
    /\ done_hashes = {}
    /\ file_idx = 0
    /\ note_idx = 0
    /\ attempt = 0
    /\ fails = 0
    /\ calls = 0
    /\ run_calls = Zero
    /\ run_ok = Zero
    /\ root_calls = 0
    /\ root_fails = 0
    /\ start_fs = fs_done
    /\ committed = Zero
    /\ lost = {}
    /\ prev_unfinished = {}
    /\ uploads = <<>>
    /\ log = {}
    /\ wk_checks = 0
    /\ api_calls = NoCalls
    /\ run_parsed = Zero
    /\ remote_partial = Zero
    /\ added = {}
    /\ resolved = <<>>

\* the parts that cli.py imports are not exercised on their own
NoRemote == remote = <<>> /\ returned = <<>>
NoIndents == indents = <<>> /\ tree = <<>>
NoSize == size = <<>> /\ size_str = None

\* a process that has just been started
Started == pc = "parse_args" /\ Fresh /\ NoRemote /\ NoIndents /\ NoSize

\* the program started on export files, with the default --mode-webclips and
\* a ledger that no run has written to
Init ==
    /\ args \in Args
    /\ enex_input \in EnexInputs
    /\ input_paths = PlainInput(Len(enex_input))
    /\ fs_done \in InitLedgers
    /\ Started

\* the statement at position p is executed next
Goto(p) == pc' = p /\ UNCHANGED <<exc, raised_at>>

\* exception e leaves cli(): nothing in cli.py catches it
Raise(e) == pc' = "raised" /\ exc' = e /\ raised_at' = pc

\* ------------------------------------------------------------------ cli
\* parse_args: the schema has no --retry, no --skip-failed and no
\* --keep-failed option, so argparse rejects an argv that holds one of them
\* (SystemExit, status 2)
ParseArgs ==
    /\ pc = "parse_args"
    /\ IF args.retry # Unset \/ args.skip_failed \/ args.keep_failed
       THEN Raise("SystemExit(2)")
       ELSE Goto("ensure_wkhtmltopdf")
    /\ UNCHANGED <<parts, inputs, fs_done, run, import_root, notebook_root, done_hashes,
                   file_idx, note_idx, attempt, fails, calls, run_calls, run_ok,
                   start_fs, root_calls, root_fails, committed, lost,
                   prev_unfinished, observed>>

\* what ends the process when ensure_wkhtmltopdf finds no renderer
WkhtmltopdfMissing == "SystemExit(1)"

\* EnsureWkhtmltopdf without the test of args.mode_webclips
EnsureWkhtmltopdf_Always ==
    /\ pc = "ensure_wkhtmltopdf"
    /\ wk_checks' = wk_checks + 1
    /\ \E found \in BOOLEAN :
        IF found THEN Goto("get_root") ELSE Raise(WkhtmltopdfMissing)
    /\ UNCHANGED <<parts, inputs, fs_done, run, import_root, notebook_root, done_hashes,
                   file_idx, note_idx, attempt, fails, calls, run_calls, run_ok,
                   start_fs, root_calls, root_fails, committed, lost,
                   prev_unfinished, uploads, log, api_calls, run_parsed,
                   remote_partial, added, resolved>>

\* cli: if args.mode_webclips == "PDF": ensure_wkhtmltopdf()
EnsureWkhtmltopdf ==
    /\ pc = "ensure_wkhtmltopdf"
    /\ IF args.mode_webclips = "PDF"
       THEN /\ wk_checks' = wk_checks + 1
            /\ \E found \in BOOLEAN :
                IF found THEN Goto("get_root") ELSE Raise(WkhtmltopdfMissing)
       ELSE /\ wk_checks' = wk_checks
            /\ Goto("get_root")
    /\ UNCHANGED <<parts, inputs, fs_done, run, import_root, notebook_root, done_hashes,
                   file_idx, note_idx, attempt, fails, calls, run_calls, run_ok,
                   start_fs, root_calls, root_fails, committed, lost,
                   prev_unfinished, uploads, log, api_calls, run_parsed,
                   remote_partial, added, resolved>>

\* one more call of the operation op
Called(op) == [api_calls EXCEPT ![op] = @ + 1]

\* GetRoot with BadTokenException treated like a missing token
GetRoot_BadTokenDryRun ==
    /\ pc = "get_root"
    /\ CASE args.token = "none" ->
                /\ Goto("init_uploader") /\ import_root' = None
                /\ log' = log \cup {Logged(DryRunMsg)}
                /\ api_calls' = api_calls
         [] args.token = "bad" ->
                /\ Goto("init_uploader") /\ import_root' = None
                /\ log' = log \cup {Logged(BadTokenMsg)}
                /\ api_calls' = Called("get_notion_client")
         [] OTHER ->
                /\ Goto("init_uploader") /\ import_root' = "import_root"
                /\ log' = log
                /\ api_calls' = [Called("get_notion_client")
                                    EXCEPT !["get_import_root"] = @ + 1]
    /\ UNCHANGED <<parts, inputs, fs_done, run, notebook_root, done_hashes, file_idx,
                   note_idx, attempt, fails, calls, run_calls, run_ok, start_fs,
                   root_calls, root_fails, committed, lost, prev_unfinished,
                   uploads, wk_checks, run_parsed, remote_partial, added,
                   resolved>>

\* get_root: dry run without a token, sys.exit(1) on BadTokenException of
\* get_notion_client, else get_import_root
GetRoot ==
    /\ pc = "get_root"
    /\ CASE args.token = "none" ->
                /\ Goto("init_uploader") /\ import_root' = None
                /\ log' = log \cup {Logged(DryRunMsg)}
                /\ api_calls' = api_calls
         [] args.token = "bad" ->
                /\ Raise("SystemExit(1)") /\ import_root' = import_root
                /\ log' = log \cup {Logged(BadTokenMsg)}
                /\ api_calls' = Called("get_notion_client")
         [] OTHER ->
                /\ Goto("init_uploader") /\ import_root' = "import_root"
                /\ log' = log
                /\ api_calls' = [Called("get_notion_client")
                                    EXCEPT !["get_import_root"] = @ + 1]
    /\ UNCHANGED <<parts, inputs, fs_done, run, notebook_root, done_hashes, file_idx,
                   note_idx, attempt, fails, calls, run_calls, run_ok, start_fs,
                   root_calls, root_fails, committed, lost, prev_unfinished,
                   uploads, wk_checks, run_parsed, remote_partial, added,
                   resolved>>

\* EnexUploader.__init__: DoneFile(done_file) if done_file else set()
InitUploader ==
    /\ pc = "init_uploader"
    /\ done_hashes' = IF args.done_file THEN DoneFileLoad(fs_done) ELSE {}
    /\ file_idx' = 0
    /\ Goto("next_input")
    /\ UNCHANGED <<parts, inputs, fs_done, run, import_root, notebook_root, note_idx,
                   attempt, fails, calls, run_calls, run_ok, start_fs, root_calls,
                   root_fails, committed, lost, prev_unfinished, observed>>

\* cli: for enex_input in args.enex_input: upload(enex_input), or upload of
\* each file of sorted(enex_input.glob("**/*.enex")) when it is a directory
NextInput ==
    /\ pc = "next_input"
    /\ \E queue \in UploadQueues(input_paths) :
        IF file_idx < Len(queue)
        THEN /\ file_idx' = file_idx + 1
             /\ uploads' = Append(uploads, queue[file_idx + 1])
             /\ Goto("get_notebook_root")
        ELSE /\ file_idx' = file_idx
             /\ uploads' = uploads
             /\ Goto("done")
    /\ note_idx' = 0
    /\ UNCHANGED <<parts, inputs, fs_done, run, import_root, notebook_root, done_hashes,
                   attempt, fails, calls, run_calls, run_ok, start_fs, root_calls,
                   root_fails, committed, lost, prev_unfinished, log, wk_checks,
                   api_calls, run_parsed, remote_partial, added,
                   resolved>>

\* the export file that upload() is working on
CurPath == uploads[Len(uploads)]

\* enex_file.stem: the name of an export file without directory and suffix;
\* a file found in a directory has a name of its own
Stem(path) ==
    IF \E i \in DOMAIN input_paths :
            ~input_paths[i].is_dir /\ input_paths[i].path = path
    THEN (CHOOSE a \in Range(input_paths) : ~a.is_dir /\ a.path = path).stem
    ELSE path

\* GetNotebookRootOk without "if self.import_root is None: return None"
GetNotebookRootOk_NoDryRunTest ==
    /\ pc = "get_notebook_root"
    /\ notebook_root' = "notebook_root"
    /\ root_calls' = root_calls + 1
    /\ resolved' = Append(resolved, Stem(CurPath))
    /\ Goto("iter_notes")
    /\ UNCHANGED <<parts, inputs, fs_done, run, import_root, done_hashes, file_idx,
                   note_idx, attempt, fails, calls, run_calls, run_ok, start_fs,
                   root_fails, committed, lost, prev_unfinished, uploads, log,
                   wk_checks, api_calls, run_parsed, remote_partial, added>>

\* _get_notebook_root returns: None in a dry run (no remote call), else the
\* container that get_notebook_database / get_notebook_page gives for
\* enex_file.stem
GetNotebookRootOk ==
    /\ pc = "get_notebook_root"
    /\ notebook_root' = IF import_root = None THEN None ELSE "notebook_root"
    /\ root_calls' = IF import_root = None THEN root_calls ELSE root_calls + 1
    /\ resolved' = IF import_root = None
                   THEN resolved ELSE Append(resolved, Stem(CurPath))
    /\ Goto("iter_notes")
    /\ UNCHANGED <<parts, inputs, fs_done, run, import_root, done_hashes, file_idx,
                   note_idx, attempt, fails, calls, run_calls, run_ok, start_fs,
                   root_fails, committed, lost, prev_unfinished, uploads, log,
                   wk_checks, api_calls, run_parsed, remote_partial, added>>

\* GetNotebookRootFail inside a retry loop like the one of _upload_note
GetNotebookRootFail_Retried ==
    /\ pc = "get_notebook_root"
    /\ import_root # None
    /\ root_calls' = root_calls + 1
    /\ root_fails' = root_fails + 1
    /\ resolved' = Append(resolved, Stem(CurPath))
    /\ IF root_fails < LastAttempt
       THEN Goto("get_notebook_root") ELSE Raise("NoteUploadFailException")
    /\ UNCHANGED <<parts, inputs, fs_done, run, import_root, notebook_root, done_hashes,
                   file_idx, note_idx, attempt, fails, calls, run_calls, run_ok,
                   start_fs, committed, lost, prev_unfinished, uploads, log,
                   wk_checks, api_calls, run_parsed, remote_partial, added>>

\* get_notebook_database / get_notebook_page raises NoteUploadFailException
GetNotebookRootFail ==
    /\ pc = "get_notebook_root"
    /\ import_root # None
    /\ root_calls' = root_calls + 1
    /\ root_fails' = root_fails + 1
    /\ resolved' = Append(resolved, Stem(CurPath))
    /\ Raise("NoteUploadFailException")
    /\ UNCHANGED <<parts, inputs, fs_done, run, import_root, notebook_root, done_hashes,
                   file_idx, note_idx, attempt, fails, calls, run_calls, run_ok,
                   start_fs, committed, lost, prev_unfinished, uploads, log,
                   wk_checks, api_calls, run_parsed, remote_partial, added>>

\* the end of an export file
NoNote == 0

\* the fingerprints of the notes read so far
SeenHashes == UNION {Range(enex_input[i].notes) : i \in 1 .. Len(enex_input)}

\* a note read for the first time has a fingerprint seen before or a new one;
\* fingerprints are opaque, so they are numbered in the order in which they
\* are first read
NewNotes ==
    SeenHashes \cup {h \in Hashes : h = Cardinality(SeenHashes) + 1}

\* what iter_notes can yield next: the note read at this place before, the end
\* of the file, or a note that is read for the first time
Yields ==
    IF note_idx < Len(CurFile) THEN {CurFile[note_idx + 1]}
    ELSE IF enex_input[file_idx].eof THEN {NoNote}
    ELSE {NoNote} \cup (IF CountNotes(enex_input) < MaxNotes THEN NewNotes ELSE {})

\* upload: next note of iter_notes, skipped when its hash is in done_hashes
IterNotes ==
    /\ pc = "iter_notes"
    /\ \E note \in Yields :
        IF note # NoNote
        THEN /\ note_idx' = note_idx + 1
             /\ enex_input' =
                    IF note_idx < Len(CurFile) THEN enex_input
                    ELSE [enex_input EXCEPT ![file_idx].notes = Append(@, note)]
             /\ IF Contains(done_hashes, note)
                THEN Goto("iter_notes") ELSE Goto("parse_note")
        ELSE /\ note_idx' = note_idx
             /\ enex_input' = [enex_input EXCEPT ![file_idx].eof = TRUE]
             /\ Goto("next_input")
    /\ UNCHANGED <<parts, args, input_paths, parse_result, fs_done, run, import_root, notebook_root,
                   done_hashes, file_idx, attempt, fails, calls, run_calls, run_ok,
                   start_fs, root_calls, root_fails, committed, lost,
                   prev_unfinished, observed>>

\* parse_note is a function of the note: the same blocks every time
ParseNoteGives ==
    IF parse_result[CurNote] = "unknown" THEN ParseOutcomes
    ELSE {parse_result[CurNote]}

\* ParseNote with lines 99 and 100 of upload() swapped: the ledger entry is
\* made before _upload_note is entered
ParseNote_AddBeforeUpload ==
    /\ pc = "parse_note"
    /\ \E blocks \in ParseNoteGives :
        /\ parse_result' = [parse_result EXCEPT ![CurNote] = blocks]
        /\ CASE blocks = "raise" ->
                    Raise("Exception") /\ UNCHANGED <<done_hashes, fs_done>>
             [] blocks = "empty" ->
                    Goto("iter_notes") /\ UNCHANGED <<done_hashes, fs_done>>
             [] OTHER ->
                    IF notebook_root # None
                    THEN /\ Goto("upload_note")
                         /\ done_hashes' = done_hashes \cup {<<CurNote>>}
                         /\ fs_done' = IF args.done_file
                                       THEN DoneFileAppend(fs_done, CurNote)
                                       ELSE fs_done
                    ELSE Goto("iter_notes") /\ UNCHANGED <<done_hashes, fs_done>>
        /\ log' = IF blocks = "raise"
                   THEN log \cup {LoggedFor(ParseErrorMsg, CurNote)} ELSE log
    /\ run_parsed' = [run_parsed EXCEPT ![CurNote] = @ + 1]
    /\ attempt' = 0
    /\ fails' = 0
    /\ calls' = 0
    /\ UNCHANGED <<parts, args, input_paths, enex_input, run, import_root,
                   notebook_root, file_idx, note_idx, run_calls, run_ok, start_fs,
                   root_calls, root_fails, committed, lost, prev_unfinished,
                   uploads, wk_checks, api_calls, remote_partial, added,
                   resolved>>

\* ParseNote with "if not note_blocks: break": a note without blocks ends the
\* loop over the notes of its file
ParseNote_BreakOnEmpty ==
    /\ pc = "parse_note"
    /\ \E blocks \in ParseNoteGives :
        /\ parse_result' = [parse_result EXCEPT ![CurNote] = blocks]
        /\ CASE blocks = "raise" -> Raise("Exception")
             [] blocks = "empty" -> Goto("next_input")
             [] OTHER -> IF notebook_root # None
                         THEN Goto("upload_note") ELSE Goto("iter_notes")
        /\ log' = IF blocks = "raise"
                   THEN log \cup {LoggedFor(ParseErrorMsg, CurNote)} ELSE log
    /\ run_parsed' = [run_parsed EXCEPT ![CurNote] = @ + 1]
    /\ attempt' = 0
    /\ fails' = 0
    /\ calls' = 0
    /\ UNCHANGED <<parts, args, input_paths, enex_input, fs_done, run, import_root,
                   notebook_root, done_hashes, file_idx, note_idx, run_calls,
                   run_ok, start_fs, root_calls, root_fails, committed, lost,
                   prev_unfinished, uploads, wk_checks, api_calls,
                   remote_partial, added, resolved>>

\* ParseNote without "if not note_blocks: continue"
ParseNote_UploadsEmpty ==
    /\ pc = "parse_note"
    /\ \E blocks \in ParseNoteGives :
        /\ parse_result' = [parse_result EXCEPT ![CurNote] = blocks]
        /\ CASE blocks = "raise" -> Raise("Exception")
             [] OTHER -> IF notebook_root # None
                         THEN Goto("upload_note") ELSE Goto("iter_notes")
        /\ log' = IF blocks = "raise"
                   THEN log \cup {LoggedFor(ParseErrorMsg, CurNote)} ELSE log
    /\ run_parsed' = [run_parsed EXCEPT ![CurNote] = @ + 1]
    /\ attempt' = 0
    /\ fails' = 0
    /\ calls' = 0
    /\ UNCHANGED <<parts, args, input_paths, enex_input, fs_done, run, import_root,
                   notebook_root, done_hashes, file_idx, note_idx, run_calls,
                   run_ok, start_fs, root_calls, root_fails, committed, lost,
                   prev_unfinished, uploads, wk_checks, api_calls,
                   remote_partial, added, resolved>>

\* ParseNote with an "except Exception" that logs and goes on with the next
\* note instead of "raise"
ParseNote_SkipsOnError ==
    /\ pc = "parse_note"
    /\ \E blocks \in ParseNoteGives :
        /\ parse_result' = [parse_result EXCEPT ![CurNote] = blocks]
        /\ CASE blocks = "raise" -> Goto("iter_notes")
             [] blocks = "empty" -> Goto("iter_notes")
             [] OTHER -> IF notebook_root # None
                         THEN Goto("upload_note") ELSE Goto("iter_notes")
        /\ log' = IF blocks = "raise"
                   THEN log \cup {LoggedFor(ParseErrorMsg, CurNote)} ELSE log
    /\ run_parsed' = [run_parsed EXCEPT ![CurNote] = @ + 1]
    /\ attempt' = 0
    /\ fails' = 0
    /\ calls' = 0
    /\ UNCHANGED <<parts, args, input_paths, enex_input, fs_done, run, import_root,
                   notebook_root, done_hashes, file_idx, note_idx, run_calls,
                   run_ok, start_fs, root_calls, root_fails, committed, lost,
                   prev_unfinished, uploads, wk_checks, api_calls,
                   remote_partial, added, resolved>>

\* upload: _parse_note, "if not note_blocks: continue", the dry run test,
\* and the entry of _upload_note (attempt = 0)
ParseNote ==
    /\ pc = "parse_note"
    /\ \E blocks \in ParseNoteGives :
        /\ parse_result' = [parse_result EXCEPT ![CurNote] = blocks]
        /\ CASE blocks = "raise" -> Raise("Exception")
             [] blocks = "empty" -> Goto("iter_notes")
             [] OTHER -> IF notebook_root # None
                         THEN Goto("upload_note") ELSE Goto("iter_notes")
        /\ log' = IF blocks = "raise"
                   THEN log \cup {LoggedFor(ParseErrorMsg, CurNote)} ELSE log
    /\ run_parsed' = [run_parsed EXCEPT ![CurNote] = @ + 1]
    /\ attempt' = 0
    /\ fails' = 0
    /\ calls' = 0
    /\ UNCHANGED <<parts, args, input_paths, enex_input, fs_done, run, import_root,
                   notebook_root, done_hashes, file_idx, note_idx, run_calls,
                   run_ok, start_fs, root_calls, root_fails, committed, lost,
                   prev_unfinished, uploads, wk_checks, api_calls,
                   remote_partial, added, resolved>>

\* run_calls counts 0, 1, and 2 for "more than once"
CountCall(n) == IF n < 2 THEN n + 1 ELSE n

\* _upload_note: upload_note returns, break
UploadNoteOk ==
    /\ pc = "upload_note"
    /\ calls' = calls + 1
    /\ run_calls' = [run_calls EXCEPT ![CurNote] = CountCall(@)]
    /\ run_ok' = [run_ok EXCEPT ![CurNote] = @ + 1]
    /\ committed' = [committed EXCEPT ![CurNote] = @ + 1]
    /\ Goto("done_add")
    /\ UNCHANGED <<parts, inputs, fs_done, run, import_root, notebook_root, done_hashes,
                   file_idx, note_idx, attempt, fails, start_fs, root_calls,
                   root_fails, lost, prev_unfinished, observed>>

\* KeepFailed of a call "upload_note(notebook_root, note, note_blocks, True)"
KeepFailed_On == TRUE

\* the keep_failed of "upload_note(notebook_root, note, note_blocks)": the
\* call names none, which leaves the default policy
KeepFailed == FALSE

\* UploadNoteLeaves without the removal of the page
UploadNoteLeaves_NoCleanup(created, keep_failed) == IF created THEN 1 ELSE 0

\* upload_note that raises NoteUploadFailException: the unfinished pages or
\* rows it leaves in the container. The page or row that the attempt has
\* created is removed unless keep_failed.
UploadNoteLeaves(created, keep_failed) ==
    IF created /\ keep_failed THEN 1 ELSE 0

\* IsLastAttempt with "if attempt == 5: raise"
IsLastAttempt_OffByOne(a) == a = MaxAttempts

\* the terminal test of the retry loop: "if attempt == 4: raise"
IsLastAttempt(a) == a = LastAttempt

\* UploadNoteFail with the ledger entry made in a "finally": the note is put
\* into the ledger when its last attempt has failed too
UploadNoteFail_AddsOnFailure ==
    /\ pc = "upload_note"
    /\ calls' = calls + 1
    /\ fails' = fails + 1
    /\ run_calls' = [run_calls EXCEPT ![CurNote] = CountCall(@)]
    /\ \E created \in BOOLEAN :
        remote_partial' = [remote_partial EXCEPT
                              ![CurNote] = @ + UploadNoteLeaves(created, KeepFailed)]
    /\ log' = IF IsLastAttempt(attempt) THEN log ELSE log \cup {LoggedFor(RetryMsg, CurNote)}
    /\ IF IsLastAttempt(attempt)
       THEN /\ Raise("NoteUploadFailException")
            /\ attempt' = attempt
            /\ done_hashes' = done_hashes \cup {<<CurNote>>}
            /\ fs_done' = IF args.done_file
                          THEN DoneFileAppend(fs_done, CurNote) ELSE fs_done
       ELSE /\ Goto("upload_note")
            /\ attempt' = attempt + 1
            /\ UNCHANGED <<done_hashes, fs_done>>
    /\ UNCHANGED <<parts, inputs, run, import_root, notebook_root, file_idx, note_idx,
                   run_ok, start_fs, root_calls, root_fails, committed, lost,
                   prev_unfinished, uploads,
                   wk_checks, api_calls, run_parsed, added,
                   resolved>>

\* UploadNoteFail with the last failure swallowed: the loop over the notes
\* goes on instead of the exception leaving cli()
UploadNoteFail_Swallow ==
    /\ pc = "upload_note"
    /\ calls' = calls + 1
    /\ fails' = fails + 1
    /\ run_calls' = [run_calls EXCEPT ![CurNote] = CountCall(@)]
    /\ \E created \in BOOLEAN :
        remote_partial' = [remote_partial EXCEPT
                              ![CurNote] = @ + UploadNoteLeaves(created, KeepFailed)]
    /\ log' = IF IsLastAttempt(attempt) THEN log ELSE log \cup {LoggedFor(RetryMsg, CurNote)}
    /\ IF IsLastAttempt(attempt)
       THEN Goto("iter_notes") /\ attempt' = attempt
       ELSE Goto("upload_note") /\ attempt' = attempt + 1
    /\ UNCHANGED <<parts, inputs, fs_done, run, import_root, notebook_root, done_hashes,
                   file_idx, note_idx, run_ok, start_fs, root_calls, root_fails,
                   committed, lost, prev_unfinished, uploads,
                   wk_checks, api_calls, run_parsed, added,
                   resolved>>

\* _upload_note: upload_note raises NoteUploadFailException
UploadNoteFail ==
    /\ pc = "upload_note"
    /\ calls' = calls + 1
    /\ fails' = fails + 1
    /\ run_calls' = [run_calls EXCEPT ![CurNote] = CountCall(@)]
    /\ \E created \in BOOLEAN :
        remote_partial' = [remote_partial EXCEPT
                              ![CurNote] = @ + UploadNoteLeaves(created, KeepFailed)]
    /\ log' = IF IsLastAttempt(attempt) THEN log ELSE log \cup {LoggedFor(RetryMsg, CurNote)}
    /\ IF IsLastAttempt(attempt)
       THEN Raise("NoteUploadFailException") /\ attempt' = attempt
       ELSE Goto("upload_note") /\ attempt' = attempt + 1
    /\ UNCHANGED <<parts, inputs, fs_done, run, import_root, notebook_root, done_hashes,
                   file_idx, note_idx, run_ok, start_fs, root_calls, root_fails,
                   committed, lost, prev_unfinished, uploads,
                   wk_checks, api_calls, run_parsed, added,
                   resolved>>

\* self.done_hashes.add(note.note_hash): the in-memory set
DoneAdd ==
    /\ pc = "done_add"
    /\ done_hashes' = done_hashes \cup {<<CurNote>>}
    /\ added' = added \cup {CurNote}
    /\ IF args.done_file THEN Goto("done_write") ELSE Goto("iter_notes")
    /\ attempt' = 0
    /\ fails' = 0
    /\ calls' = 0
    /\ UNCHANGED <<parts, inputs, fs_done, run, import_root, notebook_root, file_idx,
                   note_idx, run_calls, run_ok, start_fs, root_calls, root_fails,
                   committed, lost, prev_unfinished, uploads,
                   log, wk_checks, api_calls, run_parsed, remote_partial,
                   resolved>>

\* DoneWrite that keeps the line back for a write at the end of the run
DoneWrite_Deferred ==
    /\ pc = "done_write"
    /\ fs_done' = fs_done
    /\ Goto("iter_notes")
    /\ UNCHANGED <<parts, inputs, run, import_root, notebook_root, done_hashes, file_idx,
                   note_idx, attempt, fails, calls, run_calls, run_ok, start_fs,
                   root_calls, root_fails, committed, lost, prev_unfinished, observed>>

\* DoneFile.add: append the line to the file
DoneWrite ==
    /\ pc = "done_write"
    /\ fs_done' = DoneFileAppend(fs_done, CurNote)
    /\ Goto("iter_notes")
    /\ UNCHANGED <<parts, inputs, run, import_root, notebook_root, done_hashes, file_idx,
                   note_idx, attempt, fails, calls, run_calls, run_ok, start_fs,
                   root_calls, root_fails, committed, lost, prev_unfinished, observed>>

\* main: KeyboardInterrupt at any point of cli(), then sys.exit(1)
Interrupt ==
    /\ pc \in Running
    /\ Raise("KeyboardInterrupt")
    /\ lost' = IF pc \in {"done_add", "done_write"} THEN lost \cup {CurNote} ELSE lost
    /\ UNCHANGED <<parts, inputs, fs_done, run, import_root, notebook_root, done_hashes,
                   file_idx, note_idx, attempt, fails, calls, run_calls, run_ok,
                   start_fs, root_calls, root_fails, committed, prev_unfinished, observed>>

\* the program is started again with the same argv, input and done file
NextRun ==
    /\ pc \in Ended
    /\ run < MaxRuns
    /\ run' = run + 1
    /\ pc' = "parse_args"
    /\ exc' = "none"
    /\ raised_at' = "none"
    /\ import_root' = None
    /\ notebook_root' = None
    /\ done_hashes' = {}
    /\ file_idx' = 0
    /\ note_idx' = 0
    /\ attempt' = 0
    /\ fails' = 0
    /\ calls' = 0
    /\ run_calls' = Zero
    /\ run_ok' = Zero
    /\ root_calls' = 0
    /\ root_fails' = 0
    /\ uploads' = <<>>
    /\ log' = {}
    /\ wk_checks' = 0
    /\ api_calls' = NoCalls
    /\ run_parsed' = Zero
    /\ added' = {}
    /\ resolved' = <<>>
    /\ start_fs' = fs_done
    /\ prev_unfinished' = {h \in Hashes : run_calls[h] > 0 /\ run_ok[h] = 0}
    /\ UNCHANGED <<parts, inputs, fs_done, committed, lost, remote_partial>>

Next ==
    \/ ParseArgs
    \/ EnsureWkhtmltopdf
    \/ GetRoot
    \/ InitUploader
    \/ NextInput
    \/ GetNotebookRootOk
    \/ GetNotebookRootFail
    \/ IterNotes
    \/ ParseNote
    \/ UploadNoteOk
    \/ UploadNoteFail
    \/ DoneAdd
    \/ DoneWrite
    \/ Interrupt
    \/ NextRun

Spec == Init /\ [][Next]_vars

\* ------------------------------------------------------------ one run
\* one run of the program with any --mode-webclips, on a ledger that earlier
\* runs can have written
InitOnce ==
    /\ args \in AllArgs
    /\ enex_input \in EnexInputs
    /\ input_paths \in NamedInputs(Len(enex_input))
    /\ fs_done \in WrittenLedgers
    /\ Started

NextOnce ==
    \/ ParseArgs
    \/ EnsureWkhtmltopdf
    \/ GetRoot
    \/ InitUploader
    \/ NextInput
    \/ GetNotebookRootOk
    \/ GetNotebookRootFail
    \/ IterNotes
    \/ ParseNote
    \/ UploadNoteOk
    \/ UploadNoteFail
    \/ DoneAdd
    \/ DoneWrite
    \/ Interrupt

SpecOnce == InitOnce /\ [][NextOnce]_vars

\* the same run of a process that is never suspended for good: while cli()
\* has a statement to execute, a statement is executed
SpecOnceFair == SpecOnce /\ WF_vars(NextOnce)

\* an export file that holds one note, the note of file i
OneNoteFile(i) == [notes |-> <<((i - 1) % NumHashes) + 1>>, eof |-> TRUE]

\* one run of the program on files and directories that hold export files of
\* one note each, with the options that parse_args accepts and a token that
\* is absent or valid
InitDir ==
    /\ args \in {a \in Args : /\ a.retry = Unset
                               /\ ~a.skip_failed /\ ~a.keep_failed
                               /\ a.token # "bad"}
    /\ input_paths \in InputPaths
    /\ enex_input = [i \in 1 .. CountFiles(input_paths) |-> OneNoteFile(i)]
    /\ fs_done \in InitLedgers
    /\ Started

SpecDir == InitDir /\ [][NextOnce]_vars

\* ------------------------------------------------- DoneFile on its own
\* the variables that the DoneFile objects of a path do not touch
driver == <<args, input_paths, parse_result, exc, import_root, notebook_root,
            file_idx, attempt, fails, calls, run_calls, run_ok, start_fs,
            raised_at, root_calls, root_fails, committed, lost, prev_unfinished,
            uploads, log, wk_checks, api_calls, run_parsed, remote_partial,
            resolved>>

\* a path with a ledger that earlier runs can have left, and no DoneFile
\* object on it yet; enex_input holds the fingerprints given to add
InitLedger ==
    /\ args = [token |-> "good", done_file |-> TRUE, retry |-> Unset,
               skip_failed |-> FALSE, keep_failed |-> FALSE,
               mode_webclips |-> "TXT"]
    /\ input_paths = PlainInput(1)
    /\ enex_input = <<UnreadFile>>
    /\ fs_done \in WrittenLedgers
    /\ pc = "no_done_file"
    /\ Fresh
    /\ NoRemote /\ NoIndents /\ NoSize

\* DoneFile(path): a new object on the path
LedgerNew ==
    /\ pc = "no_done_file"
    /\ done_hashes' = DoneFileLoad(fs_done)
    /\ pc' = "done_file"
    /\ UNCHANGED <<parts, driver, enex_input, note_idx, fs_done, added, run>>

\* DoneFile.add(h) for a fingerprint not given to add before: the set
LedgerAdd ==
    /\ pc = "done_file"
    /\ \E h \in Hashes \ added :
        /\ enex_input' = <<[notes |-> Append(enex_input[1].notes, h),
                            eof |-> FALSE]>>
        /\ done_hashes' = done_hashes \cup {<<h>>}
        /\ added' = added \cup {h}
    /\ note_idx' = note_idx + 1
    /\ pc' = "done_file_add"
    /\ UNCHANGED <<parts, driver, fs_done, run>>

\* DoneFile.add(h): the line appended to the file
LedgerAddWrite ==
    /\ pc = "done_file_add"
    /\ fs_done' = DoneFileAppend(fs_done, enex_input[1].notes[note_idx])
    /\ pc' = "done_file"
    /\ UNCHANGED <<parts, driver, enex_input, note_idx, done_hashes, added, run>>

\* the process that holds the object ends
LedgerDrop ==
    /\ pc = "done_file"
    /\ run < MaxRuns
    /\ run' = run + 1
    /\ done_hashes' = {}
    /\ pc' = "no_done_file"
    /\ UNCHANGED <<parts, driver, enex_input, note_idx, fs_done, added>>

NextLedger ==
    \/ LedgerNew
    \/ LedgerAdd
    \/ LedgerAddWrite
    \/ LedgerDrop

SpecLedger == InitLedger /\ [][NextLedger]_vars

\* ------------------------------------- the imported parts on their own
\* the variables of cli(): the parts below are exercised without a run of it
cli_state == <<inputs, fs_done, run, pc, exc, import_root, notebook_root,
               done_hashes, file_idx, note_idx, attempt, fails, calls, run_calls,
               run_ok, start_fs, raised_at, root_calls, root_fails, committed,
               lost, prev_unfinished, observed>>

\* no run of cli() has been started
NoCli ==
    /\ args = [token |-> "good", done_file |-> FALSE, retry |-> Unset,
               skip_failed |-> FALSE, keep_failed |-> FALSE,
               mode_webclips |-> "TXT"]
    /\ input_paths = PlainInput(1)
    /\ enex_input = <<UnreadFile>>
    /\ fs_done = [exists |-> FALSE, data |-> <<>>]
    /\ pc = "none"
    /\ Fresh

\* ------------------------------------------------ container find-or-create
Titles == 1 .. NumTitles

\* get_import_root(client, title), get_notebook_page(root, title) and
\* get_notebook_database(root, title)
Finders == {"get_import_root", "get_notebook_page", "get_notebook_database"}

\* what a finder looks for: a page among the pages of the client's workspace,
\* a page below the root, a database below the root
ParentOf(fn) == IF fn = "get_import_root" THEN "client" ELSE "root"
KindOf(fn) == IF fn = "get_notebook_database" THEN "database" ELSE "page"
Container(fn, title) ==
    [parent |-> ParentOf(fn), title |-> title, kind |-> KindOf(fn)]

Containers == {Container(fn, title) : fn \in Finders, title \in Titles}

\* the containers of the remote workspace that are like c, oldest first
Existing(rem, c) == {i \in DOMAIN rem : rem[i] = c}

\* GetContainer that adds a container without looking for one
GetContainer_AlwaysCreates(rem, c) ==
    [remote |-> Append(rem, c), id |-> Len(rem) + 1]

\* find-or-create: the first container of that kind and title below the
\* parent, a new one when there is none
GetContainer(rem, c) ==
    IF Existing(rem, c) # {}
    THEN [remote |-> rem,
          id |-> CHOOSE i \in Existing(rem, c) : \A j \in Existing(rem, c) : i <= j]
    ELSE [remote |-> Append(rem, c), id |-> Len(rem) + 1]

\* a remote workspace that holds at most one container left by an earlier run
InitContainers ==
    /\ NoCli /\ NoIndents /\ NoSize
    /\ remote \in {<<>>} \cup {<<c>> : c \in Containers}
    /\ returned = <<>>

\* one call of a finder; returned keeps the call, the container it gave and
\* the number of containers before and after it
FindOrCreate ==
    /\ Len(returned) < MaxFinds
    /\ \E fn \in Finders, title \in Titles :
        LET got == GetContainer(remote, Container(fn, title)) IN
        /\ remote' = got.remote
        /\ returned' = Append(returned,
                              [fn |-> fn, title |-> title, id |-> got.id,
                               before |-> Len(remote), after |-> Len(got.remote),
                               absent |-> Container(fn, title) \notin Range(remote)])
    /\ UNCHANGED <<cli_state, indents, tree, size, size_str>>

NextContainers == FindOrCreate

SpecContainers == InitContainers /\ [][NextContainers]_vars

\* ------------------------------------------- indentation reconstruction
\* the blocks of a note as the parser reads them: one indent level each
IndentLevels == 0 .. MaxIndent
BlockLevels == UNION {[1 .. n -> IndentLevels] : n \in 1 .. MaxBlocks}

\* a block of the tree, in document order: its level, the index of its
\* parent (NoParent for a root) and whether it is an empty block that only
\* carries deeper blocks
NoParent == 0
Block(level, parent, filler) ==
    [level |-> level, parent |-> parent, filler |-> filler]

\* the blocks at level l that can still take children: no block after them
\* is at their level or above it
OpenAt(t, l) ==
    {i \in DOMAIN t : t[i].level = l /\ \A j \in i + 1 .. Len(t) : t[j].level > l}

\* the block that takes the next child at level l + 1
OpenBlock(t, l) == CHOOSE i \in OpenAt(t, l) : TRUE

\* the tree with a block open at level l, filled up with empty blocks where
\* the levels above have none
RECURSIVE Open(_, _)
Open(t, l) ==
    IF OpenAt(t, l) # {} THEN t
    ELSE IF l = 0 THEN Append(t, Block(0, NoParent, TRUE))
    ELSE Append(Open(t, l - 1), Block(l, OpenBlock(Open(t, l - 1), l - 1), TRUE))

\* Place that hangs an indented block below the block before it
Place_UnderLast(t, n) ==
    Append(t, Block(n, IF n = 0 THEN NoParent ELSE Len(t), FALSE))

\* a block at level 0 is a root, a block at level n > 0 becomes the last
\* child of the open block at level n - 1
Place(t, n) ==
    IF n = 0 THEN Append(t, Block(0, NoParent, FALSE))
    ELSE Append(Open(t, n - 1), Block(n, OpenBlock(Open(t, n - 1), n - 1), FALSE))

\* the parsed blocks of a note, none of them placed yet
InitIndents ==
    /\ NoCli /\ NoRemote /\ NoSize
    /\ indents \in BlockLevels
    /\ tree = <<>>

\* the next block is placed in the tree
PlaceBlock ==
    /\ indents # <<>>
    /\ tree' = Place(tree, Head(indents))
    /\ indents' = Tail(indents)
    /\ UNCHANGED <<cli_state, remote, returned, size, size_str>>

NextIndents == PlaceBlock

SpecIndents == InitIndents /\ [][NextIndents]_vars

\* --------------------------------------------------------- size formatting
\* a size is a natural number written in base 1024, lowest digit first, so
\* that sizes of 2^40 bytes and more can be told apart
Base == 1024
SizeDigits == {0, 1, 100, 512, 976, 1023}
Sizes ==
    UNION {{n \in [1 .. len -> SizeDigits] : len > 1 => n[len] # 0} :
           len \in 1 .. MaxSizeLen}

\* n * m + carry and n + carry for a small m
RECURSIVE MulSmall(_, _, _)
MulSmall(n, m, carry) ==
    IF n = <<>> THEN (IF carry = 0 THEN <<>> ELSE <<carry>>)
    ELSE <<(Head(n) * m + carry) % Base>>
         \o MulSmall(Tail(n), m, (Head(n) * m + carry) \div Base)

RECURSIVE AddSmall(_, _)
AddSmall(n, carry) ==
    IF carry = 0 THEN n
    ELSE IF n = <<>> THEN <<carry>>
    ELSE <<(Head(n) + carry) % Base>> \o AddSmall(Tail(n), (Head(n) + carry) \div Base)

\* quotient and remainder of n by a small d
RECURSIVE DivRem(_, _)
DivRem(n, d) ==
    IF n = <<>> THEN [q |-> <<>>, r |-> 0]
    ELSE LET hi == DivRem(Tail(n), d)
             v == hi.r * Base + Head(n)
         IN [q |-> <<v \div d>> \o hi.q, r |-> v % d]

IsZero(n) == \A i \in DOMAIN n : n[i] = 0

\* str(n) and the digits of "{:.1f}": a number in decimal, as characters
DigitChar == <<"0", "1", "2", "3", "4", "5", "6", "7", "8", "9">>

RECURSIVE ToDecimal(_)
ToDecimal(n) ==
    IF IsZero(n) THEN <<>>
    ELSE ToDecimal(DivRem(n, 10).q) \o <<DigitChar[DivRem(n, 10).r + 1]>>

Str(n) == IF IsZero(n) THEN <<"0">> ELSE ToDecimal(n)

\* the units above the byte, and the number of divisions by 1024 that
\* _sizeof_fmt makes for a size: until the number is below 1024, four at most
UnitChar == <<"K", "M", "G", "T">>
UnitOf(n) == IF Len(n) - 1 < Len(UnitChar) THEN Len(n) - 1 ELSE Len(UnitChar)

\* round(10 * n / 1024^k): what "{:.1f}" shows of n / 1024^k, in tenths; a
\* tie goes to the even tenth
Tenths(n, k) ==
    LET m == MulSmall(n, 10, 0)
        q == SubSeq(m, k + 1, Len(m))
        up == /\ k > 0
              /\ \/ m[k] > Base \div 2
                 \/ /\ m[k] = Base \div 2
                    /\ \/ \E i \in 1 .. k - 1 : m[i] # 0
                       \/ q[1] % 2 = 1
    IN IF up THEN AddSmall(q, 1) ELSE q

\* _sizeof_fmt with "{:.1f}" for the bytes as well
Sizeof_fmt_AllDecimal(n) ==
    Str(DivRem(Tenths(n, UnitOf(n)), 10).q)
    \o <<".", DigitChar[DivRem(Tenths(n, UnitOf(n)), 10).r + 1]>>
    \o (IF UnitOf(n) = 0 THEN <<"B">> ELSE <<UnitChar[UnitOf(n)], "B">>)

\* _sizeof_fmt(num): the bytes as an integer, larger sizes with one decimal
\* place in the unit reached by dividing by 1024
Sizeof_fmt(n) ==
    IF UnitOf(n) = 0 THEN Str(n) \o <<"B">>
    ELSE Str(DivRem(Tenths(n, UnitOf(n)), 10).q)
         \o <<".", DigitChar[DivRem(Tenths(n, UnitOf(n)), 10).r + 1]>>
         \o <<UnitChar[UnitOf(n)], "B">>

\* a file size that has not been formatted yet
InitSize ==
    /\ NoCli /\ NoRemote /\ NoIndents
    /\ size \in Sizes
    /\ size_str = None

\* the size is formatted
FormatSize ==
    /\ size_str = None
    /\ size_str' = Sizeof_fmt(size)
    /\ UNCHANGED <<cli_state, remote, returned, indents, tree, size>>

NextSize == FormatSize

SpecSize == InitSize /\ [][NextSize]_vars

\* ---------------------------------------------------- words of the claims
NUF == "NoteUploadFailException"

\* fingerprint h is a line of the text
IsLineAt(data, i, h) ==
    /\ data[i] = h
    /\ (i = 1 \/ data[i - 1] = NL)
    /\ (i = Len(data) \/ data[i + 1] = NL)

LineCount(data, h) == Cardinality({i \in 1 .. Len(data) : IsLineAt(data, i, h)})

HasLine(data, h) == LineCount(data, h) > 0

\* h is in the resume ledger: the file or the in-memory set
InLedger(h) == HasLine(fs_done.data, h) \/ <<h>> \in done_hashes

UploadFailed == pc = "raised" /\ exc = NUF /\ raised_at = "upload_note"

\* the retry count a run asks for, 5 when argv has no --retry
RetryCount == IF args.retry = Unset THEN MaxAttempts ELSE args.retry

\* C1: every fingerprint in the resume ledger (file and in-memory set) was
\* in the ledger when the run started or belongs to a note whose upload_note
\* call has returned; nothing is added before or during the upload attempts.
C1_LedgerOnlyAfterUpload ==
    /\ \A h \in Hashes : InLedger(h) => HasLine(start_fs.data, h) \/ run_ok[h] > 0
    /\ \A l \in done_hashes : \E h \in Hashes : l = <<h>>
    /\ (pc \in {"parse_note", "upload_note"} => ~InLedger(CurNote))

\* C1 witness: interrupted during the retries of a note, after an earlier
\* note of the run went into the ledger file
C1_Witness ==
    /\ pc = "raised" /\ exc = "KeyboardInterrupt" /\ raised_at = "upload_note"
    /\ fails > 0
    /\ ~InLedger(CurNote)
    /\ \E h \in Hashes : run_ok[h] > 0 /\ HasLine(fs_done.data, h)

\* C2 (as claimed): a run given retry count N >= 1 (5 when none is given)
\* makes exactly N upload_note calls for a note that always fails and then
\* raises NoteUploadFailException, and exactly K calls when attempt K is the
\* first to succeed.
C2_RetryBoundClaim ==
    (/\ args.retry = Unset \/ args.retry >= 1
     /\ ~args.skip_failed /\ ~args.keep_failed) =>
        /\ exc # "SystemExit(2)"
        /\ (UploadFailed => calls = RetryCount /\ fails = RetryCount)
        /\ (pc = "done_add" => calls = fails + 1 /\ calls <= RetryCount)
        /\ (pc = "upload_note" => calls = fails /\ fails < RetryCount)

\* C3 (as claimed): with retry count 0 a failed attempt is never terminal.
C3_UnboundedRetryClaim ==
    (args.retry = 0 /\ ~args.skip_failed /\ ~args.keep_failed) =>
        /\ exc # "SystemExit(2)"
        /\ ~UploadFailed
        /\ (pc = "done_add" => calls = fails + 1)

\* C4 (as claimed): with skip-failed a note whose attempts all fail does not
\* make the run raise; the run goes on and the note is not in the ledger.
C4_SkipFailedClaim ==
    (args.skip_failed /\ args.retry = Unset /\ ~args.keep_failed) =>
        /\ exc # "SystemExit(2)"
        /\ ~UploadFailed
        /\ (fails = MaxAttempts => calls = MaxAttempts /\ ~InLedger(CurNote))

\* a terminal failure of this run: five failed attempts, or a failed
\* container resolution
TerminalFailure == fails = MaxAttempts \/ root_fails > 0

C5_Raised ==
    TerminalFailure =>
        /\ pc = "raised" /\ exc = NUF
        /\ raised_at \in {"upload_note", "get_notebook_root"}

C5_Halted ==
    (pc = "raised" /\ exc = NUF /\ run' = run) =>
        UNCHANGED <<fs_done, done_hashes, run_calls, run_ok, root_calls,
                    file_idx, note_idx, pc>>

\* C5: a terminal failure of container resolution or of a note upload leaves
\* cli as NoteUploadFailException, and after it the run parses, resolves,
\* uploads and writes nothing more.
C5_AbortHalts == []C5_Raised /\ [][C5_Halted]_vars

\* C5 witness: the fifth attempt failed while another file was still to come
\* and an earlier note had been uploaded
C5_Witness ==
    /\ UploadFailed /\ fails = MaxAttempts
    /\ file_idx < Len(enex_input)
    /\ \E h \in Hashes : run_ok[h] > 0

\* the loop of upload() is at a note with fingerprint h
AtNote(h) ==
    /\ file_idx \in 1 .. Len(enex_input)
    /\ note_idx \in 1 .. Len(CurFile)
    /\ CurNote = h

\* the places of the input where a note with fingerprint h was read
Places(h) ==
    {p \in (1 .. Len(enex_input)) \X (1 .. MaxNotes) :
        p[2] <= Len(enex_input[p[1]].notes) /\ enex_input[p[1]].notes[p[2]] = h}

\* upload_note has returned for h and DoneFile.add has not finished for it
AddPending(h) ==
    /\ AtNote(h)
    /\ \/ pc \in {"done_add", "done_write"}
       \/ pc = "raised" /\ raised_at \in {"done_add", "done_write"}

\* C6: the fingerprint of a note whose upload succeeded is appended to the
\* ledger file exactly once, as one line, right after upload_note returned
\* and before the next note is read; uploading notes 1 and 2 in that order
\* to an empty ledger leaves exactly the two lines "1\n2\n".
C6_AppendedOnce ==
    args.done_file =>
        /\ \A h \in Hashes :
            /\ LineCount(fs_done.data, h) <= 1
            /\ run_ok[h] <= 1
            /\ (run_ok[h] > 0 /\ ~AddPending(h) => LineCount(fs_done.data, h) = 1)
        /\ (/\ pc = "done" /\ start_fs.data = <<>>
            /\ enex_input = <<[notes |-> <<1, 2>>, eof |-> TRUE]>>
            /\ run_ok[1] = 1 /\ run_ok[2] = 1
            => fs_done.data = <<1, NL, 2, NL>>)

\* C6 witness: the run of test_done_file has ended
C6_Witness ==
    /\ pc = "done" /\ run = 1 /\ args.done_file
    /\ enex_input = <<[notes |-> <<1, 2>>, eof |-> TRUE]>>
    /\ run_ok[1] = 1 /\ run_ok[2] = 1
    /\ fs_done.data = <<1, NL, 2, NL>>

\* a finished upload run in which the notes of fingerprint h were to be uploaded
UploadDue(h) ==
    /\ pc = "done"
    /\ import_root # None
    /\ parse_result[h] = "blocks"
    /\ ~HasLine(start_fs.data, h)

\* C7 (as claimed): two notes with the same fingerprint in one run result in
\* exactly one upload_note call.
C7_ExactlyOneCallClaim ==
    \A h \in Hashes :
        (UploadDue(h) /\ Cardinality(Places(h)) >= 2) => run_calls[h] = 1

C7_OneSuccess ==
    \A h \in Hashes :
        /\ run_ok[h] <= 1
        /\ (UploadDue(h) /\ Places(h) # {} => run_ok[h] = 1)

C7_NoCallAfterSuccess ==
    \A h \in Hashes :
        (run_ok[h] = 1 /\ run' = run) =>
            ~(pc' = "upload_note" /\ enex_input'[file_idx'].notes[note_idx'] = h)

\* C7 (amended): notes with the same fingerprint in one run result in at most
\* one upload_note call that returns, exactly one in a finished upload run
\* where the fingerprint was not in the ledger and the note parses to blocks;
\* once upload_note has returned for a fingerprint it is not called for that
\* fingerprint again in the run.
C7_OneSuccessfulCall == []C7_OneSuccess /\ [][C7_NoCallAfterSuccess]_vars

\* C7 witness: a finished run with two notes of one fingerprint, uploaded once
\* after a failed attempt
C7_Witness ==
    \E h \in Hashes :
        /\ UploadDue(h) /\ Cardinality(Places(h)) >= 2
        /\ run_ok[h] = 1 /\ run_calls[h] = 2

\* C8: a note whose fingerprint is in the ledger file when the run starts is
\* neither parsed nor uploaded in that run.
C8_LedgerSkips ==
    args.done_file =>
        \A h \in Hashes :
            HasLine(start_fs.data, h) =>
                /\ run_calls[h] = 0 /\ run_ok[h] = 0
                /\ ~(AtNote(h) /\ pc \in {"parse_note", "upload_note", "done_add",
                                         "done_write"})

\* C8 witness: a second run has gone through the whole input, which holds a
\* note that the ledger file listed at its start
C8_Witness ==
    /\ run = 2 /\ pc = "done" /\ import_root # None
    /\ \E h \in Hashes : HasLine(start_fs.data, h) /\ Places(h) # {}

\* the first place of the input where a note with fingerprint h was read
FirstPlace(h) ==
    CHOOSE p \in Places(h) :
        \A q \in Places(h) : p[1] < q[1] \/ (p[1] = q[1] /\ p[2] <= q[2])

\* where the run is, or was when it was ended by an exception
At == IF pc = "raised" THEN raised_at ELSE pc

\* the loop of this run has dealt with the first note that has fingerprint h
Passed(h) ==
    \/ pc = "done"
    \/ /\ Places(h) # {}
       /\ \/ file_idx > FirstPlace(h)[1]
          \/ file_idx = FirstPlace(h)[1] /\ note_idx > FirstPlace(h)[2]
          \/ /\ file_idx = FirstPlace(h)[1] /\ note_idx = FirstPlace(h)[2]
             /\ At \in {"iter_notes", "done_add", "done_write", "next_input"}

\* C9: a note whose upload was tried without success in the previous run has
\* no ledger entry, and the run that follows calls upload_note for it again
\* when it comes to it.
C9_RetriedNextRun ==
    run > 1 =>
        \A h \in prev_unfinished :
            /\ ~HasLine(start_fs.data, h)
            /\ (Passed(h) => run_calls[h] > 0)

\* C9 witness: the second run has uploaded a note that the first run had
\* given up or was interrupted on
C9_Witness ==
    /\ run = 2 /\ pc = "done"
    /\ \E h \in prev_unfinished : run_calls[h] > 0 /\ run_ok[h] = 1

\* C10 (as claimed): over runs that share a ledger, interrupted ones included,
\* the upload of a note is committed at most once.
C10_AtMostOnceClaim ==
    args.done_file => \A h \in Hashes : committed[h] <= 1

\* C10 (amended): over runs that share a ledger the upload of a note is
\* committed at most once, unless a run was interrupted after upload_note had
\* returned for it and before its fingerprint was written to the ledger file.
C10_AtMostOnceUnlessLost ==
    args.done_file => \A h \in Hashes \ lost : committed[h] <= 1

\* C10 witness: the second run skipped a note committed by the first run,
\* which had ended on another note without success
C10_Witness ==
    /\ run = 2 /\ pc = "done" /\ args.done_file /\ import_root # None
    /\ prev_unfinished # {}
    /\ \E h \in Hashes \ lost :
        committed[h] = 1 /\ HasLine(start_fs.data, h) /\ run_calls[h] = 0

C12_NotebookSkipClaim ==
    (args.skip_failed /\ args.retry = Unset /\ ~args.keep_failed) =>
        /\ exc # "SystemExit(2)"
        /\ (root_fails > 0 =>
                /\ exc # NUF
                /\ root_fails = MaxAttempts /\ root_calls = root_fails
                /\ run_calls = Zero)

\* the fingerprints that are lines of the ledger file before the first add
Original == {h \in Hashes : HasLine(start_fs.data, h)}

\* C13: after any number of distinct fingerprints have gone through
\* DoneFile.add, in any order, a DoneFile on the same path holds exactly
\* those fingerprints and the ones that the file held before; a missing file
\* gives the empty set.
C13_RoundTrip ==
    pc = "done_file" =>
        /\ done_hashes = {<<h>> : h \in added \cup Original}
        /\ (~start_fs.exists /\ added = {} => done_hashes = {})

\* C13 witness: a second DoneFile object on a file that held one fingerprint
\* before another one was added
C13_Witness ==
    /\ pc = "done_file" /\ run = 2
    /\ \E g, h \in Hashes :
        /\ g # h /\ Original = {g} /\ added = {h}
        /\ done_hashes = {<<g>>, <<h>>}

\* C14: in a run without a token no remote operation is made (no client, no
\* import root, no container resolution, no upload_note), and a run that
\* gets through its input has parsed every note that is not in the ledger.
C14_DryRun ==
    args.token = "none" =>
        /\ api_calls = NoCalls
        /\ root_calls = 0
        /\ run_calls = Zero /\ run_ok = Zero
        /\ pc \notin {"upload_note", "done_add", "done_write"}
        /\ (pc = "done" =>
                \A h \in Hashes :
                    run_parsed[h] = IF args.done_file /\ h \in Original
                                    THEN 0 ELSE Cardinality(Places(h)))

\* C14 witness: a dry run has gone through an input with a note that the
\* ledger lists and a note that it does not list
C14_Witness ==
    /\ args.token = "none" /\ pc = "done" /\ args.done_file
    /\ \E g, h \in Hashes :
        /\ g \in Original /\ Places(g) # {} /\ run_parsed[g] = 0
        /\ h \notin Original /\ run_parsed[h] > 0 /\ parse_result[h] = "blocks"

\* C15: a token that get_notion_client refuses ends the process with a
\* non-zero status after "Invalid token provided!" is logged, and the run
\* looks up no import root, resolves no container, reads, parses and uploads
\* no note and writes nothing to the ledger.
C15_BadTokenFatal ==
    args.token = "bad" =>
        /\ api_calls["get_import_root"] = 0
        /\ root_calls = 0 /\ uploads = <<>> /\ file_idx = 0
        /\ \A i \in DOMAIN enex_input : enex_input[i].notes = <<>>
        /\ run_parsed = Zero /\ run_calls = Zero
        /\ added = {} /\ fs_done = start_fs
        /\ pc \in {"parse_args", "ensure_wkhtmltopdf", "get_root", "raised"}
        /\ (api_calls["get_notion_client"] > 0 =>
                /\ pc = "raised" /\ exc = "SystemExit(1)"
                /\ raised_at = "get_root"
                /\ Logged(BadTokenMsg) \in log)

\* C15 witness: the run has ended on the refused token, before a ledger that
\* holds entries was opened
C15_Witness ==
    /\ args.token = "bad" /\ pc = "raised" /\ raised_at = "get_root"
    /\ exc = "SystemExit(1)" /\ Logged(BadTokenMsg) \in log
    /\ args.done_file /\ Original # {}

\* the run has authenticated, resolved a container, parsed or uploaded
Working ==
    \/ api_calls # NoCalls \/ root_calls > 0 \/ uploads # <<>>
    \/ run_parsed # Zero \/ run_calls # Zero

\* C16: in PDF mode ensure_wkhtmltopdf is called once per run, before the
\* authentication, every container resolution, every parse and every upload,
\* and a missing renderer ends the run there, before any note; in TXT mode
\* it is never called.
C16_RendererChecked ==
    /\ (args.mode_webclips = "TXT" => wk_checks = 0)
    /\ (args.mode_webclips = "PDF" =>
            /\ wk_checks <= 1
            /\ (Working => wk_checks = 1)
            /\ (At \notin {"parse_args", "ensure_wkhtmltopdf"} => wk_checks = 1))
    /\ (wk_checks = 1 /\ At = "ensure_wkhtmltopdf" =>
            /\ pc = "raised" /\ exc = WkhtmltopdfMissing
            /\ ~Working)

\* C16 witness: a run in PDF mode has uploaded a note after its one check
C16_Witness ==
    /\ args.mode_webclips = "PDF" /\ pc = "done" /\ wk_checks = 1
    /\ \E h \in Hashes : run_ok[h] = 1

\* the ledger entry of every note uploaded in this run is complete
AddsComplete ==
    \A h \in Hashes :
        run_ok[h] > 0 =>
            /\ <<h>> \in done_hashes
            /\ (args.done_file => HasLine(fs_done.data, h))

\* every note of the export file i has been parsed in this run or skipped
FileDone(i) ==
    /\ enex_input[i].eof
    /\ \A h \in Range(enex_input[i].notes) : run_parsed[h] > 0 \/ InLedger(h)

\* C17: a note is parsed and a container is resolved only when the note
\* before has been dealt with, its attempts and its ledger entry included,
\* and the container of a notebook is resolved only when every note of the
\* notebooks before has been dealt with.
C17_Sequential ==
    /\ (pc \in {"next_input", "get_notebook_root", "iter_notes", "parse_note",
                "upload_note", "done"} => AddsComplete)
    /\ (pc = "parse_note" => attempt = 0 /\ calls = 0 /\ fails = 0)
    /\ \A i \in 1 .. (file_idx - 1) : FileDone(i)
    /\ (pc = "done" => \A i \in DOMAIN enex_input : FileDone(i))

\* C17 witness: a note of the second notebook is about to be parsed after a
\* note of the first notebook was uploaded and written to the ledger file
C17_Witness ==
    /\ pc = "parse_note" /\ file_idx = 2 /\ args.done_file
    /\ \E h \in Range(enex_input[1].notes) :
        run_ok[h] = 1 /\ HasLine(fs_done.data, h)

\* the place in argv of the argument that names or holds path p
ArgOf(p) == CHOOSE i \in DOMAIN input_paths : p \in PathsIn(input_paths[i])

\* the export files that an argument names or holds, at any depth
ExportPaths(arg) ==
    IF arg.is_dir
    THEN {e.path : e \in {f \in arg.entries : f.kind \in {"enex", "nested_enex"}}}
    ELSE {arg.path}

AllExportPaths == UNION {ExportPaths(input_paths[i]) : i \in DOMAIN input_paths}

\* nothing is parsed or uploaded outside the upload() of an export file
OnlyInUpload ==
    /\ file_idx = Len(uploads)
    /\ (uploads = <<>> =>
            root_calls = 0 /\ run_parsed = Zero /\ run_calls = Zero)
    /\ (AllExportPaths = {} => uploads = <<>>)

\* C18 (as claimed): directories are scanned recursively for ".enex" files,
\* the export files of the run are processed in lexicographic path order, and
\* a directory without export file causes no parse and no upload.
C18_RunSortedClaim ==
    /\ \A i, j \in DOMAIN uploads : i < j => uploads[i] < uploads[j]
    /\ Range(uploads) \subseteq AllExportPaths
    /\ (pc = "done" => Range(uploads) = AllExportPaths)
    /\ OnlyInUpload

\* C18 (amended): the inputs are processed in the order of the command line;
\* a directory is scanned recursively for ".enex" files, which are processed
\* in lexicographic path order; a directory without export file causes no
\* parse and no upload.
C18_DirectorySorted ==
    /\ \A i, j \in DOMAIN uploads :
        i < j =>
            \/ ArgOf(uploads[i]) < ArgOf(uploads[j])
            \/ ArgOf(uploads[i]) = ArgOf(uploads[j]) /\ uploads[i] < uploads[j]
    /\ Range(uploads) \subseteq AllExportPaths
    /\ (pc = "done" => Range(uploads) = AllExportPaths)
    /\ OnlyInUpload

\* C18 witness: a run is through a directory that holds a nested export file
\* and one of its own, and through a directory without export file
C18_Witness ==
    /\ pc = "done" /\ Len(uploads) = 2 /\ import_root # None
    /\ \E i \in DOMAIN input_paths :
        /\ input_paths[i].is_dir
        /\ \E e, f \in input_paths[i].entries :
            e.kind = "enex" /\ f.kind = "nested_enex" /\ f.path < e.path
    /\ \E i \in DOMAIN input_paths :
        input_paths[i].is_dir /\ ExportPaths(input_paths[i]) = {}

\* C19: an upload_note call that fails under the default policy leaves no
\* unfinished page or row in the container, so every retry and the terminal
\* NoteUploadFailException find the container as the first attempt found it.
C19_FailedAttemptRemoved ==
    /\ \A h \in Hashes : remote_partial[h] = 0
    /\ (fails = MaxAttempts => exc = NUF)

\* C19 witness: a retry is about to start after a failed attempt
C19_Witness ==
    /\ pc = "upload_note" /\ fails > 0 /\ LoggedFor(RetryMsg, CurNote) \in log
    /\ remote_partial[CurNote] = 0

\* C20 (as claimed): with --keep-failed every upload_note call gets
\* keep_failed = True, and each failed attempt leaves one unfinished page.
C20_KeepFailedClaim ==
    args.keep_failed =>
        /\ exc # "SystemExit(2)"
        /\ (At = "upload_note" => remote_partial[CurNote] <= fails)
        /\ (KeepFailed \/ run_calls = Zero)

\* calls i and j of the finders had the same finder, parent and title
SameFind(i, j) ==
    returned[i].fn = returned[j].fn /\ returned[i].title = returned[j].title

\* C21: find-or-create of a container is idempotent: calls of one finder with
\* the same parent and title return the same container each time, that
\* container is the only one of its title (and kind) below the parent, and a
\* container is created by the first such call only, and only if there was
\* none.
C21_Idempotent ==
    \A i \in DOMAIN returned :
        /\ \A j \in DOMAIN returned : SameFind(i, j) => returned[i].id = returned[j].id
        /\ returned[i].id \in DOMAIN remote
        /\ remote[returned[i].id] = Container(returned[i].fn, returned[i].title)
        /\ Cardinality({k \in DOMAIN remote :
                            remote[k] = Container(returned[i].fn, returned[i].title)}) = 1
        /\ returned[i].after = returned[i].before
                               + (IF returned[i].absent THEN 1 ELSE 0)
        /\ (returned[i].after > returned[i].before
                => \A j \in 1 .. i - 1 : ~SameFind(i, j))

\* C21 witness: a finder was called three times for a title that had no
\* container, and the first call created it
C21_Witness ==
    /\ Len(returned) = 3
    /\ SameFind(1, 2) /\ SameFind(2, 3)
    /\ returned[1].absent
    /\ returned[1].after = returned[1].before + 1

\* C22 (as claimed): the container of a notebook name is kept for the run, so
\* the remote find-or-create call is made at most once per notebook name even
\* when several export files of the run have that name.
C22_CachedClaim ==
    \A i, j \in DOMAIN resolved : resolved[i] = resolved[j] => i = j

\* parse_note has raised for the note with fingerprint h in this run
ParseRaised(h) == parse_result[h] = "raise" /\ run_parsed[h] > 0

C23_Raised ==
    \A h \in Hashes :
        ParseRaised(h) =>
            /\ pc = "raised" /\ exc = "Exception" /\ raised_at = "parse_note"
            /\ AtNote(h)
            /\ LoggedFor(ParseErrorMsg, h) \in log
            /\ run_calls[h] = 0 /\ committed[h] = 0
            /\ ~InLedger(h)

C23_Halted ==
    (pc = "raised" /\ exc = "Exception" /\ run' = run) =>
        UNCHANGED <<fs_done, done_hashes, run_calls, run_ok, run_parsed,
                    root_calls, uploads, file_idx, note_idx, pc>>

FailedToParseMsg == "Failed to parse note"

\* C24 (as claimed): when parse_note raises for a note, cli logs an error
\* "Failed to parse note" and returns normally: the note is skipped and the
\* run is not aborted.
C24_ParseErrorSkippedClaim ==
    \A h \in Hashes :
        ParseRaised(h) =>
            /\ \E l \in log : l.msg = FailedToParseMsg
            /\ ~(pc = "raised" /\ exc = "Exception")

\* the roots of the tree and the children of block i
Roots == {i \in DOMAIN tree : tree[i].parent = NoParent}
Children(i) == {j \in DOMAIN tree : tree[j].parent = i}

\* the k-th of a set of blocks in document order
Nth(S, k) == CHOOSE i \in S : Cardinality({j \in S : j <= i}) = k

\* the indent levels of the blocks placed so far, in the order of the note
RECURSIVE LevelsOf(_)
LevelsOf(t) ==
    IF t = <<>> THEN <<>>
    ELSE IF Head(t).filler THEN LevelsOf(Tail(t))
    ELSE <<Head(t).level>> \o LevelsOf(Tail(t))

DecimalDigits == {"0", "1", "2", "3", "4", "5", "6", "7", "8", "9"}
DigitValue(c) ==
    CASE c = "0" -> 0 [] c = "1" -> 1 [] c = "2" -> 2 [] c = "3" -> 3
      [] c = "4" -> 4 [] c = "5" -> 5 [] c = "6" -> 6 [] c = "7" -> 7
      [] c = "8" -> 8 [] c = "9" -> 9

RECURSIVE DecimalValue(_)
DecimalValue(s) ==
    IF s = <<>> THEN 0
    ELSE 10 * DecimalValue(SubSeq(s, 1, Len(s) - 1)) + DigitValue(s[Len(s)])

\* s is an integer as str() writes it: digits, no leading zero
IsInteger(s) ==
    /\ s # <<>>
    /\ \A i \in DOMAIN s : s[i] \in DecimalDigits
    /\ (Len(s) > 1 => s[1] # "0")

\* the binary unit of a size: 0 for bytes, 1 for KB, ... 4 for TB and above
BinaryUnit(n) == IF Len(n) <= 4 THEN Len(n) - 1 ELSE 4
UnitNames == <<"K", "M", "G", "T">>

\* the whole units of 1024^k bytes in n, and the 1024ths of a unit beyond them
RECURSIVE WholeUnits(_, _)
WholeUnits(n, k) ==
    IF Len(n) <= k THEN 0 ELSE n[k + 1] + 1024 * WholeUnits(Tail(n), k)
Fraction1024(n, k) == n[k]

\* the string shows the size as a bare integer of bytes
BareBytes(n, s) ==
    /\ Len(s) >= 2 /\ s[Len(s)] = "B"
    /\ IsInteger(SubSeq(s, 1, Len(s) - 1))
    /\ DecimalValue(SubSeq(s, 1, Len(s) - 1)) = n[1]

\* the string shows the size in its binary unit with one fractional digit,
\* rounded to the nearest tenth of the unit
OneDecimalInUnit(n, s) ==
    /\ Len(s) >= 5
    /\ s[Len(s)] = "B" /\ s[Len(s) - 1] = UnitNames[BinaryUnit(n)]
    /\ s[Len(s) - 2] \in DecimalDigits /\ s[Len(s) - 3] = "."
    /\ IsInteger(SubSeq(s, 1, Len(s) - 4))
    /\ LET over == DecimalValue(SubSeq(s, 1, Len(s) - 4))
                   - WholeUnits(n, BinaryUnit(n))
           shown == over * 10240 + DigitValue(s[Len(s) - 2]) * 1024
       IN /\ over \in {0, 1}
          /\ shown >= 10 * Fraction1024(n, BinaryUnit(n)) - 512
          /\ shown <= 10 * Fraction1024(n, BinaryUnit(n)) + 10 + 512

C26_UnitsAndDigits ==
    size_str # None =>
        IF Len(size) = 1 THEN BareBytes(size, size_str)
        ELSE OneDecimalInUnit(size, size_str)

C26_SmallExamples ==
    size_str # None =>
        /\ (size = <<0>> => size_str = <<"0", "B">>)
        /\ (size = <<100>> => size_str = <<"1", "0", "0", "B">>)
        /\ (size = <<976, 1>> => size_str = <<"2", ".", "0", "K", "B">>)

\* C26 (as claimed): sizes are shown in binary units B, KB, MB, GB, TB, below
\* 1024 as a bare integer and "B", above with one fractional digit in their
\* unit; 0 gives "0B", 100 "100B", 2000 "2.0KB" and 2^40 "1024.0TB".
C26_SizeClaim ==
    /\ C26_UnitsAndDigits
    /\ C26_SmallExamples
    /\ (size_str # None /\ size = <<0, 0, 0, 0, 1>>
            => size_str = <<"1", "0", "2", "4", ".", "0", "T", "B">>)

\* C26 (amended): sizes are shown in binary units B, KB, MB, GB, TB, below
\* 1024 as a bare integer and "B", above with one fractional digit in their
\* unit; 0 gives "0B", 100 "100B", 2000 "2.0KB", 2^40 "1.0TB" and 2^50
\* (1024^5, the size of test_sizeof_fmt) "1024.0TB".
C26_SizeFormat ==
    /\ C26_UnitsAndDigits
    /\ C26_SmallExamples
    /\ (size_str # None /\ size = <<0, 0, 0, 0, 1>>
            => size_str = <<"1", ".", "0", "T", "B">>)
    /\ (size_str # None /\ size = <<0, 0, 0, 0, 0, 1>>
            => size_str = <<"1", "0", "2", "4", ".", "0", "T", "B">>)

\* C26 witness: the size 1024^5 of test_sizeof_fmt has been formatted
C26_Witness == size = <<0, 0, 0, 0, 0, 1>> /\ size_str # None

\* the ledger file changes only by one new line at its end, the fingerprint
\* of a note that upload_note has returned for in this run
C27_AppendOnly ==
    fs_done' # fs_done =>
        \E h \in Hashes :
            /\ fs_done'.data = fs_done.data \o <<h, NL>>
            /\ run_ok[h] > 0 /\ run' = run

C27_HeldClaim ==
    (args.done_file /\ pc = "raised") =>
        \A h \in Hashes : run_ok[h] > 0 => HasLine(fs_done.data, h)

C27_Held ==
    (args.done_file /\ pc = "raised") =>
        \A h \in Hashes :
            (run_ok[h] > 0 /\ ~AddPending(h)) => HasLine(fs_done.data, h)

\* C27 (as claimed): the ledger file is append-only and written per entry: no
\* line is ever removed or rewritten, and when a run aborts or is interrupted
\* the file holds the fingerprint of every note whose upload succeeded
\* earlier in that run.
C27_LedgerClaim == []C27_HeldClaim /\ [][C27_AppendOnly]_vars

\* C27 (amended): the ledger file is append-only and written per entry: no
\* line is ever removed or rewritten, and when a run aborts or is interrupted
\* the file holds the fingerprint of every note whose upload succeeded
\* earlier in that run, except the note for which upload_note had just
\* returned when the run was interrupted before DoneFile.add had written it.
C27_AppendOnlyPerEntry == []C27_Held /\ [][C27_AppendOnly]_vars

\* C27 witness: the run was interrupted at the second note, after the first
\* one had been uploaded and written to the file
C27_Witness ==
    /\ args.done_file /\ pc = "raised" /\ exc = "KeyboardInterrupt"
    /\ \E h \in Hashes :
        run_ok[h] > 0 /\ ~AtNote(h) /\ HasLine(fs_done.data, h)

\* parse_note gives an empty block list for the note with fingerprint h
EmptyNote(h) == parse_result[h] = "empty"

C28_Skipped ==
    \A h \in Hashes :
        EmptyNote(h) =>
            /\ run_calls[h] = 0 /\ committed[h] = 0
            /\ h \notin added /\ ~InLedger(h)
            /\ (pc = "done" => run_parsed[h] = Cardinality(Places(h)))

C28_Continues ==
    (/\ pc = "parse_note"
     /\ run_parsed'[CurNote] > run_parsed[CurNote]
     /\ EmptyNote(CurNote)') =>
        /\ pc' = "iter_notes"
        /\ file_idx' = file_idx /\ note_idx' = note_idx

\* C28: a note whose parse gives an empty block list is skipped: upload_note
\* is never called for it, its fingerprint never gets into the ledger, the
\* run goes on with the next note, and every run that reaches the end of the
\* input, a later run on the same ledger included, has parsed the note at
\* each place where the input holds it.
C28_EmptySkipped == []C28_Skipped /\ [][C28_Continues]_vars

\* C28 witness: a second upload run on the ledger of the first has ended; it
\* skipped a note that the first run had uploaded and parsed the empty note
\* again
C28_Witness ==
    /\ run = 2 /\ pc = "done" /\ args.done_file /\ import_root # None
    /\ \E h \in Hashes : EmptyNote(h) /\ run_parsed[h] > 0
    /\ \E g \in Hashes : HasLine(start_fs.data, g) /\ Places(g) # {}

\* the run has gone through every export file to its end
AllProcessed ==
    /\ pc = "done"
    /\ file_idx = Len(enex_input)
    /\ \A i \in DOMAIN enex_input : enex_input[i].eof

\* C29: with a bounded retry count and a finite input every run terminates,
\* whatever the remote calls do: it ends with all notes processed or with a
\* propagated failure, and never makes more than (retry count) upload_note
\* calls for a note.
C29_Terminates ==
    /\ <>(AllProcessed \/ (pc = "raised" /\ exc # "none"))
    /\ [](args.retry # 0 => calls <= RetryCount)

\* C29 witness: the run has ended with all notes processed, one of them
\* uploaded after failed attempts
C29_Witness ==
    /\ AllProcessed
    /\ \E h \in Hashes : LoggedFor(RetryMsg, h) \in log /\ run_ok[h] > 0

\* the pages or rows that the container holds for the note of fingerprint h:
\* the ones of upload_note calls that returned and the unfinished ones
PagesOf(h) == committed[h] + remote_partial[h]

\* C30: under the default cleanup policy a note uploaded on attempt K after
\* K-1 failed attempts has exactly one page or row in the container, and each
\* attempt starts on a container that holds nothing of the note, as the first
\* attempt did.
C30_OnePageAfterRetries ==
    ~args.keep_failed =>
        \A h \in Hashes :
            /\ run_ok[h] > 0 => PagesOf(h) = 1
            /\ (pc = "upload_note" /\ AtNote(h)) => PagesOf(h) = 0

\* C30 witness: upload_note has returned on the third attempt
C30_Witness ==
    /\ pc = "done_add" /\ fails = 2 /\ calls = 3
    /\ PagesOf(CurNote) = 1

\* ------------------------------------------------------------- types
TypeOK ==
    /\ pc \in Running \cup Ended
    /\ attempt \in 0 .. LastAttempt
    /\ calls \in 0 .. MaxAttempts
    /\ wk_checks \in 0 .. 1
    /\ log \subseteq [msg : {DryRunMsg, BadTokenMsg, RetryMsg, ParseErrorMsg},
                      title : Hashes \cup {Untitled}]
====
